---- MODULE Spec2Model ----
(***************************************************************************)
(* Real-time distribution subsystem of the fleet-tracker backend:          *)
(* websocket.Hub (Run, pollUpdates, HandleWebSocket), and the preference   *)
(* store behind the REST endpoints.                                        *)
(*                                                                         *)
(* Goroutines: one Run loop, one pollUpdates loop, one HandleWebSocket     *)
(* invocation per connection.  The environment is the time.Ticker, the     *)
(* OneStepGPS API (GetDevices succeeds or fails) and the remote peers      *)
(* (drain their socket, or go away).                                       *)
(*                                                                         *)
(* The hub has no per-subscriber queue of its own: WriteJSON writes to the *)
(* connection synchronously.  The only buffering is the transport's send   *)
(* buffer, modelled as buf[c] with capacity QueueCap: a write completes    *)
(* while the buffer has room, blocks while it is full, and fails once the  *)
(* connection is closed or the peer is gone.                               *)
(*                                                                         *)
(* h.clients is a plain Go map with no lock.  Unsynchronised concurrent    *)
(* access is a data race; the outcomes modelled are the runtime's fatal    *)
(* error (crashed) or the access taking its sequential effect.  An entry   *)
(* inserted while Run ranges over the map may or may not be produced by    *)
(* that iteration (Go language specification, "For statements with range   *)
(* clause").                                                               *)
(*                                                                         *)
(* Granularity: a tick and the GetDevices call it triggers are one step;   *)
(* Run's Close and delete on a failed write are one step; the handler's    *)
(* map insert and map delete are each entered in one step and take effect  *)
(* in the next, so that two goroutines can be seen inside the map.         *)
(*                                                                         *)
(* Preference store: database.DB over the MySQL table user_preferences,    *)
(* and the api.Handler endpoints that call it.  A call of a database.DB    *)
(* method is one step.                                                     *)
(*                                                                         *)
(* Further parts, each with a specification of its own and with variables  *)
(* the others leave alone: pollUpdates with its time.Ticker made explicit  *)
(* (SpecTicker), the legacy server of vehicles.go and handleMessages       *)
(* (SpecLegacy), GenerateReportHandler (SpecReport) and the transaction of *)
(* BatchUpdatePreferences (SpecBatch).                                     *)
(***************************************************************************)
EXTENDS Integers, Sequences, FiniteSets, TLC

\* ---- bounds -------------------------------------------------------------
MaxConns == 2
MaxTicks == 3
QueueCap == 2
MaxDevices == 2
MaxClientIds == 2
MaxNames == 2
MaxSortOrder == 1
MaxRequests == 2
MaxSimMoves == 1
MaxBatch == 2

\* maxAttempts of GenerateReportHandler
maxAttempts == 60

Conns == 1..MaxConns

\* ---- table user_preferences ----------------------------------------------
\* Column values.  UNIQUE KEY unique_device_client (device_id, client_id).
\* The id and timestamp columns are left out: no method reads them back into
\* a decision.
Devices == 1..MaxDevices
ClientIds == 1..MaxClientIds
Names == 1..MaxNames
Requests == 1..MaxRequests
SortOrders == 1..MaxSortOrder

\* A pointer is the set of what it points to: empty when nil.  NoPref is a
\* nil *models.UserPreference, Unset a nil field of models.PreferenceUpdate.
NoPref == {}
Unset == {}

\* models.UserPreference / models.PreferenceCreate
UserPreference ==
    [device_id : Devices, client_id : ClientIds, display_name : Names,
     is_hidden : BOOLEAN, sort_order : SortOrders]

\* models.PreferenceUpdate: a nil pointer leaves the column alone.
PreferenceUpdate ==
    [display_name : {Unset} \cup {{n} : n \in Names},
     is_hidden : {Unset} \cup {{b} : b \in BOOLEAN},
     sort_order : {Unset} \cup {{o} : o \in SortOrders}]

\* The error a database.DB method returns: nil, the "no preference found"
\* of an update or delete that affected no row, or the wrapped error of a
\* failed Exec or QueryRow.
NoErr == "nil"
NotFound == "no preference found"
DbError == "database error"

\* No database.DB method was called yet.
NoResult ==
    [op |-> "none", device_id |-> 0, client_id |-> 0, arg |-> Unset,
     pref |-> NoPref, err |-> NoErr]

\* ---- messages -----------------------------------------------------------
\* A broadcast snapshot is identified by the number of the GetDevices call
\* of pollUpdates that produced it; the initial push is a separate message.
BcastMsg(k) == <<"bcast", k>>
InitialMsg == <<"initial", 0>>

VARIABLES
    clients,     \* h.clients: the set of keys of the map
    hPc,         \* hPc[c]: position of HandleWebSocket for connection c
    closeCalls,  \* closeCalls[c]: number of Close() calls made on c
    peerGone,    \* peerGone[c]: the remote peer closed / the transport broke
    buf,         \* buf[c]: messages written to c and not yet drained by the peer
    sent,        \* sent[c]: messages for which WriteJSON on c returned nil
    regAt,       \* regAt[c]: Len(pubs) when c was inserted into h.clients, -1 before
    runPc,       \* position of Run
    cur,         \* Run's loop variable vehicles (snapshot id), 0 before the first
    todo,        \* map entries the range loop has still to produce
    runClient,   \* Run's loop variable client, 0 if none
    pollPc,      \* position of pollUpdates
    pollVal,     \* snapshot fetched by pollUpdates, waiting to be sent
    fetchLog,    \* results of pollUpdates' GetDevices calls, in order
    pubs,        \* snapshot ids sent on h.Broadcast, in order
    crashed,     \* the process died of a fatal runtime error or a panic
    rows,        \* the rows of table user_preferences
    dbRes,       \* what the last call of a database.DB method returned
    tickBuf,     \* ticks waiting in ticker.C of pollUpdates (a channel of capacity 1)
    lgPc,        \* lgPc[q]: position of the legacy vehicle handler serving request q
    lgOp,        \* lgOp[q]: the handler serving q: "create", "update" or "delete"
    lgStatus,    \* lgStatus[q]: HTTP status written for q, 0 while none is written
    execLog,     \* requests whose db.Exec returned err == nil, in order
    bcastLog,    \* what handleMessages received from broadcastChannel, in order
    loopPc,      \* position of handleMessages
    rpPc,        \* position of GenerateReportHandler
    attempt,     \* its loop variable attempt
    polls,       \* status requests it has issued
    sawDone,     \* a status response with status "done" was seen
    exported,    \* the export request was issued
    rpStatus,    \* HTTP status it answered with, 0 while none
    batch,       \* the preferences decoded by BatchUpdatePreferences
    txPc,        \* position of BatchUpdatePreferences
    txI,         \* elements of batch its loop has been through
    txView,      \* user_preferences as its open transaction sees it
    txStatus     \* HTTP status it answered with, 0 while none

vars == <<clients, hPc, closeCalls, peerGone, buf, sent, regAt,
          runPc, cur, todo, runClient, pollPc, pollVal, fetchLog, pubs, crashed,
          rows, dbRes, tickBuf,
          lgPc, lgOp, lgStatus, execLog, bcastLog, loopPc,
          rpPc, attempt, polls, sawDone, exported, rpStatus,
          batch, txPc, txI, txView, txStatus>>

connVars == <<hPc, closeCalls, peerGone, buf, sent, regAt>>
runVars  == <<runPc, cur, todo, runClient>>
pollVars == <<pollPc, pollVal, fetchLog, pubs>>
hubVars  == <<clients, connVars, runVars, pollVars, crashed>>
dbVars   == <<rows, dbRes>>
legacyVars == <<lgPc, lgOp, lgStatus, execLog, bcastLog, loopPc>>
reportVars == <<rpPc, attempt, polls, sawDone, exported, rpStatus>>
batchVars == <<batch, txPc, txI, txView, txStatus>>
extVars  == <<tickBuf, legacyVars, reportVars, batchVars>>
\* What the steps of pollUpdates' ticker, of the legacy server, of
\* GenerateReportHandler and of BatchUpdatePreferences leave alone.
tickerFrame == <<dbVars, legacyVars, reportVars, batchVars>>
legacyFrame == <<hubVars, dbVars, tickBuf, reportVars, batchVars>>
reportFrame == <<hubVars, dbVars, tickBuf, legacyVars, batchVars>>
batchFrame == <<hubVars, dbRes, tickBuf, legacyVars, reportVars>>

Range(s) == {s[i] : i \in DOMAIN s}

\* ---- NewHub ---------------------------------------------------------------
Init ==
    /\ clients = {}
    /\ hPc = [c \in Conns |-> "new"]
    /\ closeCalls = [c \in Conns |-> 0]
    /\ peerGone = [c \in Conns |-> FALSE]
    /\ buf = [c \in Conns |-> 0]
    /\ sent = [c \in Conns |-> <<>>]
    /\ regAt = [c \in Conns |-> -1]
    /\ runPc = "recv"
    /\ cur = 0
    /\ todo = {}
    /\ runClient = 0
    /\ pollPc = "wait"
    /\ pollVal = 0
    /\ fetchLog = <<>>
    /\ pubs = <<>>
    /\ crashed = FALSE
    /\ rows = {}
    /\ dbRes = NoResult
    /\ tickBuf = 0
    /\ lgPc = [q \in Requests |-> "idle"]
    /\ lgOp = [q \in Requests |-> "none"]
    /\ lgStatus = [q \in Requests |-> 0]
    /\ execLog = <<>>
    /\ bcastLog = <<>>
    /\ loopPc = "recv"
    /\ rpPc = "idle"
    /\ attempt = 0
    /\ polls = 0
    /\ sawDone = FALSE
    /\ exported = FALSE
    /\ rpStatus = 0
    /\ batch = <<>>
    /\ txPc = "idle"
    /\ txI = 0
    /\ txView = {}
    /\ txStatus = 0

\* ---- transport ------------------------------------------------------------
\* WriteJSON on c returns an error: the connection was closed locally or the
\* peer is gone.
WriteFails(c) == closeCalls[c] > 0 \/ peerGone[c]

\* WriteJSON on c can complete: the send buffer has room.
WriteCompletes(c) == ~WriteFails(c) /\ buf[c] < QueueCap

\* ReadMessage on c returns an error.
ReadFails(c) == closeCalls[c] > 0 \/ peerGone[c]

\* ---- registry access ------------------------------------------------------
\* Run holds a live map iterator from the start of the range loop over
\* h.clients to its end; the loop body blocks in WriteJSON.
RunIterating == runPc = "write"

\* Connection goroutines inside an insert into or a delete from h.clients.
MapWriters == {c \in Conns : hPc[c] \in {"inserting", "deleting"}}

\* Two goroutines are inside h.clients at the same time.
MapRace ==
    \/ Cardinality(MapWriters) >= 2
    \/ MapWriters # {} /\ RunIterating

\* ---- pollUpdates ----------------------------------------------------------
\* for range ticker.C: a tick arrives and GetDevices returns err == nil;
\* pollUpdates goes on to send the snapshot.  A run takes at most limit ticks.
FetchOK(limit) ==
    /\ ~crashed
    /\ pollPc = "wait"
    /\ Len(fetchLog) < limit
    /\ fetchLog' = Append(fetchLog, "ok")
    /\ pollVal' = Len(fetchLog) + 1
    /\ pollPc' = "send"
    /\ UNCHANGED <<clients, connVars, runVars, pubs, crashed, dbVars, extVars>>

PollFetchOK == FetchOK(MaxTicks)

\* A slip in pollUpdates: return instead of continue on a failed fetch.
PollFetchFail_Returns ==
    /\ ~crashed
    /\ pollPc = "wait"
    /\ Len(fetchLog) < MaxTicks
    /\ fetchLog' = Append(fetchLog, "fail")
    /\ pollPc' = "stopped"
    /\ UNCHANGED <<clients, connVars, runVars, pollVal, pubs, crashed, dbVars, extVars>>

\* A tick arrives and GetDevices returns err != nil: log and continue.
PollFetchFail ==
    /\ ~crashed
    /\ pollPc = "wait"
    /\ Len(fetchLog) < MaxTicks
    /\ fetchLog' = Append(fetchLog, "fail")
    /\ pollPc' = "wait"
    /\ UNCHANGED <<clients, connVars, runVars, pollVal, pubs, crashed, dbVars, extVars>>

\* ---- Run ------------------------------------------------------------------
\* The range loop over h.clients produces entry c of t next and Run enters
\* client.WriteJSON(vehicles); with no entry left the loop ends and Run
\* waits on h.Broadcast again.
RunAdvance(t, c) ==
    IF t = {}
    THEN /\ runPc' = "recv"
         /\ runClient' = 0
         /\ todo' = {}
    ELSE /\ c \in t
         /\ runPc' = "write"
         /\ runClient' = c
         /\ todo' = t \ {c}

\* h.Broadcast <- vehicles meets for vehicles := range h.Broadcast (the
\* channel is unbuffered); the range loop over h.clients starts.
Broadcast ==
    /\ ~crashed
    /\ pollPc = "send"
    /\ runPc = "recv"
    /\ pubs' = Append(pubs, pollVal)
    /\ cur' = pollVal
    /\ pollPc' = "wait"
    /\ \E c \in Conns \cup {0} : RunAdvance(clients, c)
    /\ UNCHANGED <<clients, connVars, pollVal, fetchLog, crashed, dbVars, extVars>>

\* WriteJSON returns nil.
RunWriteOK ==
    /\ ~crashed
    /\ runPc = "write"
    /\ WriteCompletes(runClient)
    /\ sent' = [sent EXCEPT ![runClient] = Append(@, BcastMsg(cur))]
    /\ buf' = [buf EXCEPT ![runClient] = @ + 1]
    /\ \E c \in Conns \cup {0} : RunAdvance(todo, c)
    /\ UNCHANGED <<clients, hPc, closeCalls, peerGone, regAt, cur, pollVars, crashed, dbVars, extVars>>

\* RunWriteErr leaving the range loop after the failed write.
RunWriteErr_Breaks ==
    /\ ~crashed
    /\ runPc = "write"
    /\ WriteFails(runClient)
    /\ closeCalls' = [closeCalls EXCEPT ![runClient] = @ + 1]
    /\ clients' = clients \ {runClient}
    /\ RunAdvance({}, 0)
    /\ UNCHANGED <<hPc, peerGone, buf, sent, regAt, cur, pollVars, crashed, dbVars, extVars>>

\* WriteJSON returns an error: client.Close(); delete(h.clients, client).
RunWriteErr ==
    /\ ~crashed
    /\ runPc = "write"
    /\ WriteFails(runClient)
    /\ closeCalls' = [closeCalls EXCEPT ![runClient] = @ + 1]
    /\ clients' = clients \ {runClient}
    /\ \E c \in Conns \cup {0} : RunAdvance(todo, c)
    /\ UNCHANGED <<hPc, peerGone, buf, sent, regAt, cur, pollVars, crashed, dbVars, extVars>>

\* ---- HandleWebSocket ------------------------------------------------------
\* h.upgrader.Upgrade succeeds; the goroutine enters the map assignment
\* h.clients[conn] = true.
HUpgrade(c) ==
    /\ ~crashed
    /\ hPc[c] = "new"
    /\ hPc' = [hPc EXCEPT ![c] = "inserting"]
    /\ UNCHANGED <<clients, closeCalls, peerGone, buf, sent, regAt,
                   runVars, pollVars, crashed, dbVars, extVars>>

\* h.upgrader.Upgrade fails: log and return.
HUpgradeFail(c) ==
    /\ ~crashed
    /\ hPc[c] = "new"
    /\ hPc' = [hPc EXCEPT ![c] = "done"]
    /\ UNCHANGED <<clients, closeCalls, peerGone, buf, sent, regAt,
                   runVars, pollVars, crashed, dbVars, extVars>>

\* h.clients[conn] = true takes effect.  If Run is ranging over the map the
\* new entry may or may not be produced by the iteration in progress.
HRegister(c) ==
    /\ ~crashed
    /\ hPc[c] = "inserting"
    /\ clients' = clients \cup {c}
    /\ regAt' = [regAt EXCEPT ![c] = Len(pubs)]
    /\ \/ todo' = todo
       \/ RunIterating /\ todo' = todo \cup {c}
    /\ hPc' = [hPc EXCEPT ![c] = "fetch"]
    /\ UNCHANGED <<closeCalls, peerGone, buf, sent, runPc, cur, runClient,
                   pollVars, crashed, dbVars, extVars>>

\* vehicles, err := h.gpsClient.GetDevices() with err == nil; the handler
\* enters conn.WriteJSON(vehicles).
HFetchOK(c) ==
    /\ ~crashed
    /\ hPc[c] = "fetch"
    /\ hPc' = [hPc EXCEPT ![c] = "initwrite"]
    /\ UNCHANGED <<clients, closeCalls, peerGone, buf, sent, regAt,
                   runVars, pollVars, crashed, dbVars, extVars>>

\* err != nil: log only.
HFetchFail(c) ==
    /\ ~crashed
    /\ hPc[c] = "fetch"
    /\ hPc' = [hPc EXCEPT ![c] = "read"]
    /\ UNCHANGED <<clients, closeCalls, peerGone, buf, sent, regAt,
                   runVars, pollVars, crashed, dbVars, extVars>>

\* conn.WriteJSON(vehicles) returns nil.
HInitWriteOK(c) ==
    /\ ~crashed
    /\ hPc[c] = "initwrite"
    /\ WriteCompletes(c)
    /\ sent' = [sent EXCEPT ![c] = Append(@, InitialMsg)]
    /\ buf' = [buf EXCEPT ![c] = @ + 1]
    /\ hPc' = [hPc EXCEPT ![c] = "read"]
    /\ UNCHANGED <<clients, closeCalls, peerGone, regAt, runVars, pollVars, crashed, dbVars, extVars>>

\* conn.WriteJSON(vehicles) returns an error: log only.
HInitWriteErr(c) ==
    /\ ~crashed
    /\ hPc[c] = "initwrite"
    /\ WriteFails(c)
    /\ hPc' = [hPc EXCEPT ![c] = "read"]
    /\ UNCHANGED <<clients, closeCalls, peerGone, buf, sent, regAt,
                   runVars, pollVars, crashed, dbVars, extVars>>

\* conn.ReadMessage() returns an error: break; the deferred cleanup runs
\* conn.Close() and enters delete(h.clients, conn).
HReadErr(c) ==
    /\ ~crashed
    /\ hPc[c] = "read"
    /\ ReadFails(c)
    /\ closeCalls' = [closeCalls EXCEPT ![c] = @ + 1]
    /\ hPc' = [hPc EXCEPT ![c] = "deleting"]
    /\ UNCHANGED <<clients, peerGone, buf, sent, regAt, runVars, pollVars, crashed, dbVars, extVars>>

\* HCleanupDelete storing h.clients[conn] = false: the key stays in the map,
\* or comes back if Run had deleted it.
HCleanupDelete_MarksInactive(c) ==
    /\ ~crashed
    /\ hPc[c] = "deleting"
    /\ clients' = clients \cup {c}
    /\ todo' = todo
    /\ hPc' = [hPc EXCEPT ![c] = "done"]
    /\ UNCHANGED <<closeCalls, peerGone, buf, sent, regAt,
                   runPc, cur, runClient, pollVars, crashed, dbVars, extVars>>

\* A slip in the deferred cleanup: conn is a variable shared by all handler
\* invocations, so the delete hits whichever connection it names by then.
HCleanupDelete_SharedConn(c) ==
    /\ ~crashed
    /\ hPc[c] = "deleting"
    /\ \E d \in Conns :
          /\ clients' = clients \ {d}
          /\ todo' = todo \ {d}
    /\ hPc' = [hPc EXCEPT ![c] = "done"]
    /\ UNCHANGED <<closeCalls, peerGone, buf, sent, regAt,
                   runPc, cur, runClient, pollVars, crashed, dbVars, extVars>>

\* deferred: delete(h.clients, conn) takes effect; an entry the range loop
\* has not reached yet is no longer produced.
HCleanupDelete(c) ==
    /\ ~crashed
    /\ hPc[c] = "deleting"
    /\ clients' = clients \ {c}
    /\ todo' = todo \ {c}
    /\ hPc' = [hPc EXCEPT ![c] = "done"]
    /\ UNCHANGED <<closeCalls, peerGone, buf, sent, regAt,
                   runPc, cur, runClient, pollVars, crashed, dbVars, extVars>>

\* ---- the remote peers -----------------------------------------------------
\* The peer reads one message off the socket.
PeerDrain(c) ==
    /\ ~crashed
    /\ buf[c] > 0
    /\ ~peerGone[c]
    /\ closeCalls[c] = 0
    /\ buf' = [buf EXCEPT ![c] = @ - 1]
    /\ UNCHANGED <<clients, hPc, closeCalls, peerGone, sent, regAt,
                   runVars, pollVars, crashed, dbVars, extVars>>

\* The peer closes the connection or the transport breaks.
PeerGone(c) ==
    /\ ~crashed
    /\ hPc[c] \notin {"new", "done"} \/ c \in clients
    /\ ~peerGone[c]
    /\ peerGone' = [peerGone EXCEPT ![c] = TRUE]
    /\ UNCHANGED <<clients, hPc, closeCalls, buf, sent, regAt,
                   runVars, pollVars, crashed, dbVars, extVars>>

\* ---- the Go runtime -------------------------------------------------------
\* fatal error: concurrent map writes / concurrent map iteration and map
\* write.  The process is gone: no goroutine takes another step.
MapRaceFatal ==
    /\ ~crashed
    /\ MapRace
    /\ crashed' = TRUE
    /\ UNCHANGED <<clients, connVars, runVars, pollVars, dbVars, extVars>>

\* ---- two writers on one connection ----------------------------------------
\* HandleWebSocket is inside its initial WriteJSON on c while Run is inside
\* WriteJSON on c.  Nothing orders the two calls; gorilla/websocket allows
\* one concurrent writer and panics ("concurrent write to websocket
\* connection") in the goroutine that notices the other, or notices nothing
\* and both writes go through.
WriteOverlap(c) == hPc[c] = "initwrite" /\ runPc = "write" /\ runClient = c

\* The panic is raised in Run: nothing recovers it, the process ends.
WriteRacePanicRun ==
    /\ ~crashed
    /\ \E c \in Conns : WriteOverlap(c)
    /\ crashed' = TRUE
    /\ UNCHANGED <<clients, connVars, runVars, pollVars, dbVars, extVars>>

\* The panic is raised in HandleWebSocket: net/http recovers it and the
\* handler is over.  Its deferred Close and delete were not yet registered,
\* and a hijacked connection is not closed by the server.
WriteRacePanicHandler(c) ==
    /\ ~crashed
    /\ WriteOverlap(c)
    /\ hPc' = [hPc EXCEPT ![c] = "done"]
    /\ UNCHANGED <<clients, closeCalls, peerGone, buf, sent, regAt,
                   runVars, pollVars, crashed, dbVars, extVars>>

\* ---- main -------------------------------------------------------------------
\* log.Fatal(http.ListenAndServe(...)): ListenAndServe returned and os.Exit
\* ends every goroutine where it stands.  No deferred function runs and the
\* program closes nothing; the hub has no method that stops it.
ServerExit ==
    /\ ~crashed
    /\ runPc # "exited"
    /\ runPc' = "exited"
    /\ pollPc' = "exited"
    /\ hPc' = [c \in Conns |-> "exited"]
    /\ UNCHANGED <<clients, closeCalls, peerGone, buf, sent, regAt, cur, todo,
                   runClient, pollVal, fetchLog, pubs, crashed, dbVars, extVars>>

\* ---- database.DB ------------------------------------------------------------
\* The lookup by device_id alone, whatever the client_id.
GetPreferenceByDeviceID(tbl, dev, cli) ==
    LET match == {r \in tbl : r.device_id = dev}
    IN  IF match = {} THEN NoPref ELSE {CHOOSE r \in match : TRUE}

\* SELECT ... WHERE device_id = ? AND client_id = ?, QueryRow(...).Scan:
\* the first matching row, or nil on sql.ErrNoRows.
GetPreferenceByDeviceAndClientID(tbl, dev, cli) ==
    LET match == {r \in tbl : r.device_id = dev /\ r.client_id = cli}
    IN  IF match = {} THEN NoPref ELSE {CHOOSE r \in match : TRUE}

\* A plain INSERT into a table without the unique key on (device_id,
\* client_id).
Upsert_InsertOnly(tbl, p) == tbl \cup {p}

\* INSERT ... ON DUPLICATE KEY UPDATE display_name, is_hidden, sort_order,
\* under UNIQUE KEY unique_device_client (device_id, client_id).
Upsert(tbl, p) ==
    {r \in tbl : ~(r.device_id = p.device_id /\ r.client_id = p.client_id)}
        \cup {p}

\* An UPDATE that sets every column, a nil pointer written as the zero
\* value of is_hidden.
ApplyUpdate_SetsAll(r, u) ==
    [r EXCEPT
       !.display_name = IF u.display_name = Unset THEN @
                        ELSE CHOOSE n \in u.display_name : TRUE,
       !.is_hidden = IF u.is_hidden = Unset THEN FALSE
                     ELSE CHOOSE b \in u.is_hidden : TRUE,
       !.sort_order = IF u.sort_order = Unset THEN @
                      ELSE CHOOSE o \in u.sort_order : TRUE]

\* UPDATE ... SET the columns whose pointer is not nil.
ApplyUpdate(r, u) ==
    [r EXCEPT
       !.display_name = IF u.display_name = Unset THEN @
                        ELSE CHOOSE n \in u.display_name : TRUE,
       !.is_hidden = IF u.is_hidden = Unset THEN @
                     ELSE CHOOSE b \in u.is_hidden : TRUE,
       !.sort_order = IF u.sort_order = Unset THEN @
                      ELSE CHOOSE o \in u.sort_order : TRUE]

Result(op, dev, cli, arg, pref, err) ==
    [op |-> op, device_id |-> dev, client_id |-> cli, arg |-> arg,
     pref |-> pref, err |-> err]

\* CreatePreference: the upsert, then the row is read back and returned.
CreatePreference(p) ==
    /\ ~crashed
    /\ rows' = Upsert(rows, p)
    /\ dbRes' = Result("create", p.device_id, p.client_id, p,
                       GetPreferenceByDeviceAndClientID(rows', p.device_id,
                                                        p.client_id), NoErr)
    /\ UNCHANGED <<hubVars, extVars>>

\* A call of GetPreferenceByDeviceAndClientID.
GetPreference(dev, cli) ==
    /\ ~crashed
    /\ dbRes' = Result("get", dev, cli, Unset,
                       GetPreferenceByDeviceAndClientID(rows, dev, cli), NoErr)
    /\ UNCHANGED <<rows, hubVars, extVars>>

\* UpdatePreferenceByDeviceAndClientID: RowsAffected() == 0 is an error.
\* MySQL counts a row as affected when a column value changes; updated_at =
\* NOW() changes unless the row was last written within the same second, so
\* an update that changes no other column reports 1 or 0 rows.
UpdatePreferenceByDeviceAndClientID(dev, cli, u) ==
    LET old == {r \in rows : r.device_id = dev /\ r.client_id = cli}
        new == {ApplyUpdate(r, u) : r \in old}
    IN  /\ ~crashed
        /\ \E affected \in BOOLEAN :
              /\ old = {} => ~affected
              /\ new # old => affected
              /\ IF affected
                 THEN /\ rows' = (rows \ old) \cup new
                      /\ dbRes' = Result("update", dev, cli, u,
                                         GetPreferenceByDeviceAndClientID(
                                             rows', dev, cli), NoErr)
                 ELSE /\ rows' = rows
                      /\ dbRes' = Result("update", dev, cli, u, NoPref, NotFound)
        /\ UNCHANGED <<hubVars, extVars>>

\* A DeletePreference that does not look at RowsAffected().
DeletePreference_NoCheck(dev, cli) ==
    LET old == {r \in rows : r.device_id = dev /\ r.client_id = cli}
    IN  /\ ~crashed
        /\ rows' = rows \ old
        /\ dbRes' = Result("delete", dev, cli, Unset, NoPref, NoErr)
        /\ UNCHANGED <<hubVars, extVars>>

\* DeletePreference: RowsAffected() == 0 is an error.
DeletePreference(dev, cli) ==
    LET old == {r \in rows : r.device_id = dev /\ r.client_id = cli}
    IN  /\ ~crashed
        /\ rows' = rows \ old
        /\ dbRes' = Result("delete", dev, cli, Unset, NoPref,
                        IF old = {} THEN NotFound ELSE NoErr)
        /\ UNCHANGED <<hubVars, extVars>>

\* Exec or QueryRow returns an error (connection lost, server gone): the
\* method returns it and the table is as it was.
StoreFails(op) ==
    /\ ~crashed
    /\ dbRes' = Result(op, 0, 0, Unset, NoPref, DbError)
    /\ UNCHANGED <<rows, hubVars, extVars>>

\* ---- api.Handler ------------------------------------------------------------
\* POST /preferences
createPreference(p) == CreatePreference(p)

\* GET /preferences/{device}
getPreference(dev, cli) == GetPreference(dev, cli)

\* PUT /preferences/{device}: 404 unless the preference exists.
updatePreference(dev, cli, u) ==
    IF GetPreferenceByDeviceAndClientID(rows, dev, cli) = NoPref
    THEN GetPreference(dev, cli)
    ELSE UpdatePreferenceByDeviceAndClientID(dev, cli, u)

\* deletePreference that also sends on h.BroadcastChannel once the row is
\* deleted, as the handlers of the legacy server do.
deletePreference_Broadcasts(dev, cli) ==
    LET old == {r \in rows : r.device_id = dev /\ r.client_id = cli}
    IN  /\ ~crashed
        /\ runPc = "recv"
        /\ rows' = rows \ old
        /\ dbRes' = Result("delete", dev, cli, Unset, NoPref,
                        IF old = {} THEN NotFound ELSE NoErr)
        /\ pubs' = Append(pubs, 0)
        /\ cur' = 0
        /\ \E c \in Conns \cup {0} : RunAdvance(clients, c)
        /\ UNCHANGED <<clients, connVars, pollPc, pollVal, fetchLog, crashed, extVars>>

\* DELETE /preferences/{device}
deletePreference(dev, cli) == DeletePreference(dev, cli)

RunStep ==
    \/ RunWriteOK
    \/ RunWriteErr

PollStep ==
    \/ PollFetchOK
    \/ PollFetchFail

HandlerStep(c) ==
    \/ HUpgrade(c)
    \/ HUpgradeFail(c)
    \/ HRegister(c)
    \/ HFetchOK(c)
    \/ HFetchFail(c)
    \/ HInitWriteOK(c)
    \/ HInitWriteErr(c)
    \/ HReadErr(c)
    \/ HCleanupDelete(c)

Next ==
    \/ PollStep
    \/ Broadcast
    \/ RunStep
    \/ \E c \in Conns : HandlerStep(c)
    \/ \E c \in Conns : PeerDrain(c)
    \/ \E c \in Conns : PeerGone(c)
    \/ MapRaceFatal
    \/ WriteRacePanicRun
    \/ \E c \in Conns : WriteRacePanicHandler(c)

Spec == Init /\ [][Next]_vars

TypeOK ==
    /\ clients \subseteq Conns
    /\ todo \subseteq Conns
    /\ \A c \in Conns : buf[c] \in 0..QueueCap /\ closeCalls[c] \in 0..2
    /\ runClient \in 0..MaxConns
    /\ Len(fetchLog) <= MaxTicks
\* ---- scheduling -----------------------------------------------------------
\* The Go scheduler runs every runnable goroutine eventually: Run, the
\* channel rendezvous, and each connection handler once its connection was
\* upgraded.  Nothing obliges a peer to drain its socket or to go away, a
\* new connection to arrive, or the source to answer a further tick.
Fairness ==
    /\ WF_vars(RunStep)
    /\ WF_vars(Broadcast)
    /\ \A c \in Conns :
          WF_vars(HRegister(c) \/ HFetchOK(c) \/ HFetchFail(c) \/ HInitWriteOK(c)
                  \/ HInitWriteErr(c) \/ HReadErr(c) \/ HCleanupDelete(c))

FairSpec == Spec /\ Fairness

\* ---- helpers for the properties -------------------------------------------
\* Run is inside WriteJSON on c and the call cannot return: the send buffer
\* is full and the connection is neither closed nor broken.
RunBlockedOn(c) ==
    /\ ~crashed
    /\ runPc = "write"
    /\ runClient = c
    /\ ~WriteCompletes(c)
    /\ ~WriteFails(c)

\* Connections on which Close() has been called.
ClosedSet == {c \in Conns : closeCalls[c] > 0}

\* The broadcast snapshots written to c, in the order written.
IsBcast(m) == m[1] = "bcast"
BcastIds(c) ==
    LET b == SelectSeq(sent[c], IsBcast)
    IN  [i \in 1..Len(b) |-> b[i][2]]

\* The peer of c has never drained a message.
NeverDrained(c) == buf[c] = Len(sent[c])

\* ---- C1 -------------------------------------------------------------------
\* C1: a subscriber that was in the registry before the first publish and
\* is not removed keeps catching up with h.Broadcast: it is eventually
\* written exactly the snapshots sent so far, each once, in the order sent.
\* (Not counted: the process has died, or the subscriber's own transport is
\* backed up, so that the failure shown is one a healthy subscriber suffers.)
C1_AllDeliveredInOrder ==
    \A c \in Conns :
        (regAt[c] = 0)
            ~> (BcastIds(c) = pubs \/ c \notin clients \/ crashed \/ buf[c] = QueueCap)

\* ---- C2 -------------------------------------------------------------------
\* C2: a subscriber whose queue holds QueueCap undrained snapshots when a
\* further one is to be enqueued is eventually out of the registry with its
\* transport closed exactly once.
C2_OverflowEvicts ==
    \A c \in Conns :
        (RunBlockedOn(c) /\ buf[c] = QueueCap /\ NeverDrained(c))
            ~> ((c \notin clients /\ closeCalls[c] = 1) \/ crashed)

\* ---- C3 -------------------------------------------------------------------
\* C3: the hub is a non-blocking broadcaster: whenever Run is in the middle
\* of a fan-out it can take its next step, so a subscriber whose write does
\* not complete never holds up the delivery to the others or the poller.
C3_NonBlockingBroadcast == (runPc = "write" /\ ~crashed) => ENABLED RunStep

\* ---- C4 -------------------------------------------------------------------
\* C4: every access to the clients registry is mutually exclusive with every
\* other access: no connection goroutine inserts into or deletes from
\* h.clients while Run ranges over it or while another one writes it.
C4_RegistryMutualExclusion == ~MapRace

\* ---- C5 -------------------------------------------------------------------
\* C5: over its lifetime a subscriber's transport is closed exactly once:
\* Close is never invoked a second time on the same connection.
C5_ClosedAtMostOnce == \A c \in Conns : closeCalls[c] <= 1
\* ---- C6 -------------------------------------------------------------------
\* A first removal of c has taken effect: c is out of the registry and its
\* transport has been closed.
Removed(c) == c \notin clients /\ closeCalls[c] >= 1

\* This step is part of a removal of c: a Close() on c or the end of a
\* delete(h.clients, c).
RemovalStep(c) ==
    \/ closeCalls'[c] # closeCalls[c]
    \/ hPc[c] = "deleting" /\ hPc'[c] = "done"

\* C6: removing a subscriber that has already been removed changes neither
\* the registry, nor the set of closed transports, nor any other
\* subscriber's state.
C6_SecondUnregisterNoEffect ==
    [][\A c \in Conns :
          (Removed(c) /\ RemovalStep(c)) =>
              /\ clients' = clients
              /\ ClosedSet' = ClosedSet
              /\ \A d \in Conns \ {c} :
                    /\ hPc'[d] = hPc[d]
                    /\ closeCalls'[d] = closeCalls[d]
                    /\ peerGone'[d] = peerGone[d]
                    /\ buf'[d] = buf[d]
                    /\ sent'[d] = sent[d]]_vars

\* Both removal paths have run to the end on the same subscriber, the
\* second one after the first had taken effect, next to a registered one.
C6_Witness ==
    \E c \in Conns :
        /\ closeCalls[c] = 2
        /\ hPc[c] = "done"
        /\ c \notin clients
        /\ runClient # c
        /\ clients # {}

\* ---- C7 -------------------------------------------------------------------
\* The fetches of pollUpdates that succeeded, by number, in order.
OkFetches ==
    LET n == Len(fetchLog)
        IsOk(i) == fetchLog[i] = "ok"
    IN  SelectSeq([i \in 1..n |-> i], IsOk)

\* The sends pollUpdates has made or is making on h.Broadcast.
PollSends == IF pollPc = "send" THEN Append(pubs, pollVal) ELSE pubs

\* C7: the sends of pollUpdates on h.Broadcast are exactly its successful
\* fetches, one send each, in order (a failed fetch produces none), and the
\* loop is still running after every fetch, failed or not.
C7_PollerSkipsFailures ==
    /\ PollSends = OkFetches
    /\ pollPc \in {"wait", "send"}
    /\ (Len(fetchLog) > 0 /\ fetchLog[Len(fetchLog)] = "fail") => pollPc = "wait"

\* Fetch N failed, fetch N+1 succeeded and its snapshot went out, after
\* which the loop fetched again.
C7_Witness ==
    \E n \in 1..(MaxTicks - 2) :
        /\ Len(fetchLog) >= n + 2
        /\ fetchLog[n] = "fail"
        /\ fetchLog[n + 1] = "ok"
        /\ n \notin Range(pubs)
        /\ (n + 1) \in Range(pubs)

\* ---- C8 -------------------------------------------------------------------
\* C8: a subscriber inserted into the registry while Run fans out snapshot
\* S (the last one sent on h.Broadcast at that moment) is never written S,
\* and is written no snapshot twice.
C8_InFlightNotDelivered ==
    \A c \in Conns :
        /\ regAt[c] >= 1 => pubs[regAt[c]] \notin Range(BcastIds(c))
        /\ \A i, j \in DOMAIN sent[c] : sent[c][i] = sent[c][j] => i = j

\* ---- C10 ------------------------------------------------------------------
\* C10: the initial snapshot is the first message written to a subscriber:
\* no broadcast snapshot is written to it before the initial push.
C10_InitialBeforeBroadcast ==
    \A c \in Conns : \A i \in DOMAIN sent[c] :
        sent[c][i] = InitialMsg => i = 1
\* ---- C9: the end-to-end scenario ------------------------------------------
\* The source answers every tick (four of them); connection 1 is in the
\* registry before the first tick and its peer never drains; connection 2
\* joins after the second tick and its peer drains every message at once.
\* Both peers stay connected.
E2ETicks == 4

\* The peer of connection 2 has taken everything written to it.
E2EDrained == buf[2] = 0

E2ETick ==
    /\ E2EDrained
    /\ Len(fetchLog) = 0 => 1 \in clients
    /\ Len(fetchLog) = 2 => 2 \in clients
    /\ FetchOK(E2ETicks)

E2EBroadcast == E2EDrained /\ Broadcast

E2ERun == E2EDrained /\ RunStep

E2EFirstConnects == E2EDrained /\ HUpgrade(1)

E2ESecondConnects == E2EDrained /\ Len(fetchLog) = 2 /\ HUpgrade(2)

E2EHandler(c) ==
    /\ E2EDrained
    /\ \/ HRegister(c)
       \/ HFetchOK(c)
       \/ HFetchFail(c)
       \/ HInitWriteOK(c)
       \/ HInitWriteErr(c)
       \/ HReadErr(c)
       \/ HCleanupDelete(c)

E2ESecondDrains == PeerDrain(2)

E2ERaceFatal == E2EDrained /\ MapRaceFatal

NextE2E ==
    \/ E2ETick
    \/ E2EBroadcast
    \/ E2ERun
    \/ E2EFirstConnects
    \/ E2ESecondConnects
    \/ \E c \in Conns : E2EHandler(c)
    \/ E2ESecondDrains
    \/ E2ERaceFatal

\* Every goroutine runs, the ticks come, both clients connect and the
\* second peer drains.
FairnessE2E ==
    /\ WF_vars(E2ETick)
    /\ WF_vars(E2EBroadcast)
    /\ WF_vars(E2ERun)
    /\ WF_vars(E2EFirstConnects)
    /\ WF_vars(E2ESecondConnects)
    /\ \A c \in Conns : WF_vars(E2EHandler(c))
    /\ WF_vars(E2ESecondDrains)

SpecE2E == Init /\ [][NextE2E]_vars /\ FairnessE2E

\* C9: the scenario ends with subscriber 1 written A and B and evicted
\* (out of the registry, transport closed), and subscriber 2 written
\* exactly C then D by the fan-out.
C9_EndToEnd ==
    <>(\/ /\ 1 \notin clients
          /\ closeCalls[1] >= 1
          /\ BcastIds(1) = <<1, 2>>
          /\ BcastIds(2) = <<3, 4>>
       \/ crashed)

\* ---- the server stops -----------------------------------------------------
\* The hub of a server that may stop: Hub has no Close or Stop method and
\* nothing closes h.Broadcast, so the only end of the hub is the end of the
\* process.
NextShutdown ==
    \/ Next
    \/ ServerExit

SpecShutdown == Init /\ [][NextShutdown]_vars

\* Connections that were inserted into h.clients at some time.
EverRegistered == {c \in Conns : regAt[c] >= 0}

\* C11: once the hub has shut down, the registry is empty and every
\* connection that was ever registered has been closed.
C11_ShutdownClosesAll ==
    runPc = "exited" =>
        /\ clients = {}
        /\ \A c \in EverRegistered : closeCalls[c] >= 1

\* ---- write failures -------------------------------------------------------
\* This step is Run's WriteJSON on c returning an error: Run leaves the
\* call without a message having been written.
RunWriteFailsOn(c) ==
    /\ runPc = "write"
    /\ runClient = c
    /\ WriteFails(c)
    /\ sent' = sent
    /\ <<runPc', runClient'>> # <<runPc, runClient>>

\* The fan-out of snapshot cur is over and Run waits for the next snapshot.
FanOutDone == runPc = "recv" /\ cur >= 1 /\ ~crashed

\* C12: a write failure during fan-out closes and removes that subscriber
\* only; no other subscriber's entry or connection changes, the loop goes on
\* with the same snapshot over every entry it had left, and when the fan-out
\* is over Run waits for the next snapshot with every subscriber that was
\* registered before the publication and is still registered holding it.
C12_WriteFailureIsolated ==
    /\ [][\A c \in Conns : RunWriteFailsOn(c) =>
             /\ clients' = clients \ {c}
             /\ closeCalls' = [closeCalls EXCEPT ![c] = @ + 1]
             /\ <<hPc', peerGone', buf', regAt'>> = <<hPc, peerGone, buf, regAt>>
             /\ cur' = cur
             /\ IF todo = {}
                THEN runPc' = "recv"
                ELSE /\ runPc' = "write"
                     /\ runClient' \in todo
                     /\ todo' = todo \ {runClient'}]_vars
    /\ [](FanOutDone =>
             \A d \in clients :
                 regAt[d] < Len(pubs) => BcastMsg(cur) \in Range(sent[d]))

\* The one fan-out so far evicted c on a failed write (Run closed it, its
\* handler has not), and d, registered with it, holds that snapshot.
C12_Witness ==
    \E c, d \in Conns :
        /\ FanOutDone
        /\ Len(pubs) = 1
        /\ regAt[c] = 0 /\ regAt[d] = 0
        /\ c \notin clients /\ closeCalls[c] = 1 /\ hPc[c] \in {"fetch", "initwrite", "read"}
        /\ d \in clients
        /\ BcastMsg(cur) \in Range(sent[d])
        /\ BcastMsg(cur) \notin Range(sent[c])

\* This step is the initial conn.WriteJSON of HandleWebSocket on c returning
\* an error.
InitWriteFailsOn(c) ==
    /\ hPc[c] = "initwrite"
    /\ WriteFails(c)
    /\ hPc'[c] = "read"
    /\ sent' = sent

\* C13: a write error on a registered subscriber, in Run's broadcast write
\* or in the initial push of HandleWebSocket, unregisters that subscriber.
C13_WriteErrorUnregisters ==
    [][\A c \in clients :
          (RunWriteFailsOn(c) \/ InitWriteFailsOn(c)) => c \notin clients']_vars

\* ---- read failures --------------------------------------------------------
\* C14: when ReadMessage on a registered subscriber returns an error, the
\* subscriber is eventually out of the registry with its connection closed
\* and its handler over (no further read).
C14_ReadErrorRemoves ==
    \A c \in Conns :
        (hPc[c] = "read" /\ ReadFails(c) /\ c \in clients)
            ~> (c \notin clients /\ closeCalls[c] >= 1 /\ hPc[c] = "done")

\* ---- eligibility ----------------------------------------------------------
\* In this step a goroutine enters WriteJSON on c: Run's range loop produces
\* c, or HandleWebSocket goes on from its GetDevices to the initial push.
WriteStartsOn(c) ==
    \/ runPc' = "write" /\ runClient' = c /\ (runPc # "write" \/ runClient # c)
    \/ hPc[c] = "fetch" /\ hPc'[c] = "initwrite"

\* C15: no snapshot write, broadcast or initial push, is attempted on a
\* subscriber that is out of the registry or whose connection was closed.
C15_WritesOnlyToEligible ==
    [][\A c \in Conns :
          WriteStartsOn(c) => (c \in clients' /\ closeCalls'[c] = 0)]_vars

\* C16: a subscriber that was removed from the registry is never added
\* back, and a connection whose handler is past the upgrade never starts
\* over: a client that reconnects is another connection, another key.
C16_RemovedStaysRemoved ==
    [][\A c \in Conns :
          /\ (c \in EverRegistered /\ c \notin clients) => c \notin clients'
          /\ hPc[c] \notin {"new", "inserting"}
                => hPc'[c] \notin {"new", "inserting"}]_vars

\* c was registered first, was removed and its handler is over; d registered
\* after a later publication and is in the registry.
C16_Witness ==
    \E c, d \in Conns :
        /\ c \in EverRegistered /\ c \notin clients
        /\ hPc[c] = "done" /\ closeCalls[c] >= 1
        /\ d \in clients /\ regAt[d] > regAt[c]

\* ---- the preference store on its own ---------------------------------------
\* The database.DB methods called one after another, as database_test.go and
\* the handlers call them.
NextStore ==
    \/ \E p \in UserPreference : CreatePreference(p)
    \/ \E dev \in Devices, cli \in ClientIds : GetPreference(dev, cli)
    \/ \E dev \in Devices, cli \in ClientIds, u \in PreferenceUpdate :
          UpdatePreferenceByDeviceAndClientID(dev, cli, u)
    \/ \E dev \in Devices, cli \in ClientIds : DeletePreference(dev, cli)
    \/ \E op \in {"create", "get", "update", "delete"} : StoreFails(op)

SpecStore == Init /\ [][NextStore]_vars

\* ---- the REST endpoints next to the poller --------------------------------
ApiTicks == 1

ApiTick == FetchOK(ApiTicks)

\* if clientID == "" { clientID = "default" }
DefaultClientId == 1

\* The preference endpoints, called without a client_id, served while
\* pollUpdates and Run publish.
NextApi ==
    \/ ApiTick
    \/ Broadcast
    \/ \E p \in UserPreference :
          p.client_id = DefaultClientId /\ createPreference(p)
    \/ \E dev \in Devices : getPreference(dev, DefaultClientId)
    \/ \E dev \in Devices, u \in PreferenceUpdate :
          updatePreference(dev, DefaultClientId, u)
    \/ \E dev \in Devices : deletePreference(dev, DefaultClientId)

SpecApi == Init /\ [][NextApi]_vars

\* C17: every snapshot that enters h.Broadcast is sent by pollUpdates: a
\* step that publishes is the poller's send of the snapshot it fetched, and
\* no API handler step publishes.
C17_PollerSoleSender ==
    [][pubs' # pubs =>
          /\ pollPc = "send"
          /\ pollPc' = "wait"
          /\ pubs' = Append(pubs, pollVal)]_vars

\* The poller has published a snapshot and an API handler has deleted a
\* preference.
C17_Witness ==
    /\ Len(pubs) = 1
    /\ dbRes.op = "delete"
    /\ dbRes.err = NoErr

C20_SingleWriter == \A c \in Conns : ~WriteOverlap(c)

\* ---- pollUpdates and its ticker ---------------------------------------------
\* time.NewTicker: the runtime sends each tick on ticker.C without blocking;
\* ticker.C holds one tick, and a tick that finds it full is dropped.
Tick ==
    /\ ~crashed
    /\ tickBuf' = 1
    /\ UNCHANGED <<hubVars, tickerFrame>>

\* A pollUpdates that fetches on every tick and leaves the send on
\* h.Broadcast to a goroutine of its own, so that a pending send does not
\* hold the loop.
TickFetchOK_Async ==
    /\ ~crashed
    /\ pollPc \in {"wait", "send"}
    /\ tickBuf = 1
    /\ Len(fetchLog) < MaxTicks
    /\ tickBuf' = 0
    /\ fetchLog' = Append(fetchLog, "ok")
    /\ pollVal' = Len(fetchLog) + 1
    /\ pollPc' = "send"
    /\ UNCHANGED <<clients, connVars, runVars, pubs, crashed, tickerFrame>>

\* for range ticker.C: pollUpdates is at the head of the loop, takes the
\* waiting tick, and GetDevices returns err == nil.
TickFetchOK ==
    /\ ~crashed
    /\ pollPc = "wait"
    /\ tickBuf = 1
    /\ Len(fetchLog) < MaxTicks
    /\ tickBuf' = 0
    /\ fetchLog' = Append(fetchLog, "ok")
    /\ pollVal' = Len(fetchLog) + 1
    /\ pollPc' = "send"
    /\ UNCHANGED <<clients, connVars, runVars, pubs, crashed, tickerFrame>>

\* pollUpdates takes the waiting tick and GetDevices returns err != nil.
TickFetchFail ==
    /\ ~crashed
    /\ pollPc = "wait"
    /\ tickBuf = 1
    /\ Len(fetchLog) < MaxTicks
    /\ tickBuf' = 0
    /\ fetchLog' = Append(fetchLog, "fail")
    /\ pollPc' = "wait"
    /\ UNCHANGED <<clients, connVars, runVars, pollVal, pubs, crashed, tickerFrame>>

\* The hub with the ticker of pollUpdates made explicit and one connection.
TickerConn == CHOOSE c \in Conns : TRUE

NextTicker ==
    \/ Tick
    \/ TickFetchOK
    \/ TickFetchFail
    \/ Broadcast
    \/ RunStep
    \/ HandlerStep(TickerConn)
    \/ PeerDrain(TickerConn)
    \/ PeerGone(TickerConn)
    \/ MapRaceFatal
    \/ WriteRacePanicRun
    \/ WriteRacePanicHandler(TickerConn)

SpecTicker == Init /\ [][NextTicker]_vars

\* C21: at most one snapshot is fetched and not yet received by Run; the
\* snapshot in hand is the last one fetched; pollUpdates calls GetDevices
\* only at the head of its loop, for a tick it takes from ticker.C, never
\* while its send on h.Broadcast is pending; a tick that arrives during a
\* pending send changes neither the fetches nor the publishes, and at most
\* one tick waits.
C21_AtMostOnePending ==
    /\ [](/\ Len(OkFetches) <= Len(pubs) + 1
          /\ (Len(OkFetches) = Len(pubs) + 1) <=> (pollPc = "send")
          /\ pollPc = "send" => pollVal = Len(fetchLog)
          /\ tickBuf \in {0, 1})
    /\ [][/\ fetchLog' # fetchLog =>
                (pollPc = "wait" /\ tickBuf = 1 /\ tickBuf' = 0
                 /\ Len(fetchLog') = Len(fetchLog) + 1)
          /\ (pollPc = "send" /\ tickBuf' # tickBuf) =>
                (fetchLog' = fetchLog /\ pubs' = pubs /\ pollPc' = "send")]_vars

\* pollUpdates is blocked in its send of snapshot 1 while Run is inside
\* WriteJSON, and a tick is waiting.
C21_Witness ==
    /\ pollPc = "send"
    /\ runPc = "write"
    /\ tickBuf = 1
    /\ Len(pubs) = 1
    /\ Len(OkFetches) = 2

\* ---- a failed initial fetch ---------------------------------------------------
\* This step is HandleWebSocket on c leaving GetDevices with err != nil.
InitialFetchFailsOn(c) == hPc[c] = "fetch" /\ hPc'[c] \notin {"fetch", "initwrite"}

\* c went past a failed initial fetch (an initial write would have added
\* the initial message or found the transport in error), and its transport
\* reports no error.
FetchFailed(c) ==
    /\ hPc[c] = "read"
    /\ InitialMsg \notin Range(sent[c])
    /\ ~WriteFails(c)

\* The failed fetch leaves the connection alone: the handler goes on to its
\* read loop, nothing is closed, removed or written, and the subscriber
\* stays registered while its transport reports no error.
FetchFailureKeepsSubscriber ==
    /\ [][\A c \in Conns : InitialFetchFailsOn(c) =>
             /\ hPc'[c] = "read"
             /\ clients' = clients
             /\ closeCalls' = closeCalls
             /\ sent' = sent]_vars
    /\ [](\A c \in Conns : FetchFailed(c) => c \in clients /\ closeCalls[c] = 0)

\* C22: a failed initial fetch does not tear the connection down, the
\* subscriber stays registered and gets no initial message, and every
\* snapshot published after its registration (the k-th publication, for
\* every k) is written to it unless its transport reports an error.
C22_FetchFailureStillServed ==
    /\ FetchFailureKeepsSubscriber
    /\ \A c \in Conns : \A k \in 1..MaxTicks :
          (FetchFailed(c) /\ Len(pubs) >= k /\ regAt[c] < k)
              ~> \/ Len(pubs) >= k /\ BcastMsg(pubs[k]) \in Range(sent[c])
                 \/ WriteFails(c)

\* ---- the legacy server: vehicles.go and handleMessages ------------------------
\* The message simulateVehicleMovement sends; a handler's message carries the
\* number of its request.
SimMsg == 0

\* vehiclesHandler / vehicleHandler dispatch request q to createVehicle,
\* updateVehicle or deleteVehicle.  deleteVehicle has no body to decode.
LegacyStart(q, op) ==
    /\ lgPc[q] = "idle"
    /\ lgOp' = [lgOp EXCEPT ![q] = op]
    /\ lgPc' = [lgPc EXCEPT ![q] = IF op = "delete" THEN "exec" ELSE "decode"]
    /\ UNCHANGED <<lgStatus, execLog, bcastLog, loopPc, legacyFrame>>

\* json.NewDecoder(r.Body).Decode(&v) fails: 400 and return.
LegacyDecodeErr(q) ==
    /\ lgPc[q] = "decode"
    /\ lgStatus' = [lgStatus EXCEPT ![q] = 400]
    /\ lgPc' = [lgPc EXCEPT ![q] = "done"]
    /\ UNCHANGED <<lgOp, execLog, bcastLog, loopPc, legacyFrame>>

\* Decode succeeds; the handler goes on to db.Exec.
LegacyDecodeOK(q) ==
    /\ lgPc[q] = "decode"
    /\ lgPc' = [lgPc EXCEPT ![q] = "exec"]
    /\ UNCHANGED <<lgOp, lgStatus, execLog, bcastLog, loopPc, legacyFrame>>

\* A handler that sends on broadcastChannel whether or not db.Exec failed.
LegacyExecErr_Sends(q) ==
    /\ lgPc[q] = "exec"
    /\ lgPc' = [lgPc EXCEPT ![q] = "send"]
    /\ UNCHANGED <<lgOp, lgStatus, execLog, bcastLog, loopPc, legacyFrame>>

\* db.Exec returns an error: 500 and return.
LegacyExecErr(q) ==
    /\ lgPc[q] = "exec"
    /\ lgStatus' = [lgStatus EXCEPT ![q] = 500]
    /\ lgPc' = [lgPc EXCEPT ![q] = "done"]
    /\ UNCHANGED <<lgOp, execLog, bcastLog, loopPc, legacyFrame>>

\* db.Exec returns err == nil (an UPDATE or DELETE that matches no row
\* included); the handler enters broadcastChannel <- v.  In createVehicle
\* res.LastInsertId() comes in between; the result of the MySQL driver
\* returns a nil error from it always.
LegacyExecOK(q) ==
    /\ lgPc[q] = "exec"
    /\ execLog' = Append(execLog, q)
    /\ lgPc' = [lgPc EXCEPT ![q] = "send"]
    /\ UNCHANGED <<lgOp, lgStatus, bcastLog, loopPc, legacyFrame>>

\* broadcastChannel is unbuffered: the send of the handler and the receive
\* of handleMessages are one step.
LegacySend(q) ==
    /\ lgPc[q] = "send"
    /\ loopPc = "recv"
    /\ bcastLog' = Append(bcastLog, q)
    /\ loopPc' = "fanout"
    /\ lgPc' = [lgPc EXCEPT ![q] = "respond"]
    /\ UNCHANGED <<lgOp, lgStatus, execLog, legacyFrame>>

\* json.NewEncoder(w).Encode(v) in createVehicle and updateVehicle,
\* w.WriteHeader(http.StatusNoContent) in deleteVehicle.
LegacyRespond(q) ==
    /\ lgPc[q] = "respond"
    /\ lgStatus' = [lgStatus EXCEPT ![q] = IF lgOp[q] = "delete" THEN 204 ELSE 200]
    /\ lgPc' = [lgPc EXCEPT ![q] = "done"]
    /\ UNCHANGED <<lgOp, execLog, bcastLog, loopPc, legacyFrame>>

\* simulateVehicleMovement sends the vehicle it moved.
SimMoves == Cardinality({i \in DOMAIN bcastLog : bcastLog[i] = SimMsg})

simulateVehicleMovement ==
    /\ loopPc = "recv"
    /\ SimMoves < MaxSimMoves
    /\ bcastLog' = Append(bcastLog, SimMsg)
    /\ loopPc' = "fanout"
    /\ UNCHANGED <<lgPc, lgOp, lgStatus, execLog, legacyFrame>>

\* handleMessages has written the update to every client and is back at
\* the receive.
handleMessages ==
    /\ loopPc = "fanout"
    /\ loopPc' = "recv"
    /\ UNCHANGED <<lgPc, lgOp, lgStatus, execLog, bcastLog, legacyFrame>>

LegacyHandler(q) ==
    \/ \E op \in {"create", "update", "delete"} : LegacyStart(q, op)
    \/ LegacyDecodeErr(q)
    \/ LegacyDecodeOK(q)
    \/ LegacyExecErr(q)
    \/ LegacyExecOK(q)
    \/ LegacySend(q)
    \/ LegacyRespond(q)

NextLegacy ==
    \/ \E q \in Requests : LegacyHandler(q)
    \/ simulateVehicleMovement
    \/ handleMessages

SpecLegacy == Init /\ [][NextLegacy]_vars

ReportAnswer(code) ==
    /\ rpStatus' = code
    /\ rpPc' = "done"

\* r.Method != POST: 405; io.ReadAll(r.Body) or json.Unmarshal fails: 400.
ReportReject ==
    /\ rpPc = "idle"
    /\ \E code \in {405, 400} : ReportAnswer(code)
    /\ UNCHANGED <<attempt, polls, sawDone, exported, reportFrame>>

\* The request is a POST with a body that parses; the handler enters
\* http.DefaultClient.Do(generateReq).
ReportAccept ==
    /\ rpPc = "idle"
    /\ rpPc' = "generate"
    /\ UNCHANGED <<attempt, polls, sawDone, exported, rpStatus, reportFrame>>

\* Do(generateReq) returns an error, the response cannot be read or parsed,
\* or it carries an error: 500.
GenerateFails ==
    /\ rpPc = "generate"
    /\ ReportAnswer(500)
    /\ UNCHANGED <<attempt, polls, sawDone, exported, reportFrame>>

\* The generate response holds a report id: attempt := 0 and the handler
\* enters the first Do(statusReq).
GenerateOK ==
    /\ rpPc = "generate"
    /\ attempt' = 0
    /\ rpPc' = "status"
    /\ UNCHANGED <<polls, sawDone, exported, rpStatus, reportFrame>>

\* Do(statusReq) returns an error, the response cannot be read or parsed,
\* or it carries an error: 500.
StatusFails ==
    /\ rpPc = "status"
    /\ polls' = polls + 1
    /\ ReportAnswer(500)
    /\ UNCHANGED <<attempt, sawDone, exported, reportFrame>>

\* The status response reports a status other than "done"; the handler
\* enters time.Sleep.
StatusPending ==
    /\ rpPc = "status"
    /\ polls' = polls + 1
    /\ rpPc' = "sleep"
    /\ UNCHANGED <<attempt, sawDone, exported, rpStatus, reportFrame>>

\* The status response reports "done"; the handler enters Do(exportReq).
StatusDone ==
    /\ rpPc = "status"
    /\ polls' = polls + 1
    /\ sawDone' = TRUE
    /\ exported' = TRUE
    /\ rpPc' = "export"
    /\ UNCHANGED <<attempt, rpStatus, reportFrame>>

\* time.Sleep returns; attempt++; while attempt < maxAttempts the handler
\* enters the next Do(statusReq), otherwise it leaves the loop and answers
\* 504 "Report generation timed out".
ReportSleepEnds ==
    /\ rpPc = "sleep"
    /\ attempt' = attempt + 1
    /\ IF attempt + 1 < maxAttempts
       THEN rpPc' = "status" /\ rpStatus' = rpStatus
       ELSE ReportAnswer(504)
    /\ UNCHANGED <<polls, sawDone, exported, reportFrame>>

\* Do(exportReq) returns an error: 500.
ExportFails ==
    /\ rpPc = "export"
    /\ ReportAnswer(500)
    /\ UNCHANGED <<attempt, polls, sawDone, exported, reportFrame>>

\* Do(exportReq) returns a response (its status code is not looked at); the
\* handler sets the PDF headers and enters io.Copy(w, exportResp.Body).
ExportOK ==
    /\ rpPc = "export"
    /\ rpPc' = "copy"
    /\ UNCHANGED <<attempt, polls, sawDone, exported, rpStatus, reportFrame>>

\* io.Copy returns nil: the body went out with status 200.
CopyOK ==
    /\ rpPc = "copy"
    /\ ReportAnswer(200)
    /\ UNCHANGED <<attempt, polls, sawDone, exported, reportFrame>>

\* io.Copy returns an error.  http.Error(w, ..., 500) sets the status only
\* if no byte of the body was written before; otherwise the 200 of the
\* first Write stands.
CopyFails ==
    /\ rpPc = "copy"
    /\ \E code \in {500, 200} : ReportAnswer(code)
    /\ UNCHANGED <<attempt, polls, sawDone, exported, reportFrame>>

NextReport ==
    \/ ReportReject
    \/ ReportAccept
    \/ GenerateFails
    \/ GenerateOK
    \/ StatusFails
    \/ StatusPending
    \/ StatusDone
    \/ ReportSleepEnds
    \/ ExportFails
    \/ ExportOK
    \/ CopyOK
    \/ CopyFails

\* time.Sleep returns by itself.  http.DefaultClient has no timeout and the
\* requests carry no context: nothing obliges a call of Do, or the copy of
\* the export body, to return.
SpecReport == Init /\ [][NextReport]_vars /\ WF_vars(ReportSleepEnds)

\* The handler polls at most maxAttempts times, issues the export request
\* only after a "done" status, answers 504 only after maxAttempts polls none
\* of which reported "done", and stops polling at the first "done".
ReportPollingBounded ==
    /\ [](/\ polls <= maxAttempts
          /\ attempt <= maxAttempts
          /\ exported => sawDone
          /\ rpPc \in {"export", "copy"} => sawDone
          /\ rpStatus = 200 => sawDone /\ exported
          /\ rpStatus = 504 => polls = maxAttempts /\ ~sawDone /\ ~exported
          /\ rpStatus # 0 <=> rpPc = "done")
    /\ [][/\ sawDone => polls' = polls
          /\ rpStatus # 0 => rpStatus' = rpStatus]_vars

\* C24: GenerateReportHandler always terminates, within the bounds above.
C24_ReportTerminates ==
    /\ ReportPollingBounded
    /\ (rpPc # "idle") ~> (rpPc = "done")

\* ---- BatchUpdatePreferences -------------------------------------------------------
\* The request bodies that decode: up to MaxBatch preferences of the default
\* client.
BatchPrefs == {p \in UserPreference : p.client_id = DefaultClientId}
Batches == UNION {[1..n -> BatchPrefs] : n \in 0..MaxBatch}

\* CreatePreference applied to the elements of b from the i-th on.
RECURSIVE UpsertAll(_, _, _)
UpsertAll(tbl, b, i) ==
    IF i > Len(b) THEN tbl ELSE UpsertAll(Upsert(tbl, b[i]), b, i + 1)

\* The handler answers with code and returns; the deferred tx.Rollback()
\* drops what an open transaction did.
BatchAnswer(code) ==
    /\ txStatus' = code
    /\ txPc' = "done"

\* The body does not decode, or holds no preference: 400.
BatchReject ==
    /\ txPc = "idle"
    /\ batch' = <<>>
    /\ BatchAnswer(400)
    /\ UNCHANGED <<rows, txI, txView, batchFrame>>

\* The body decodes to a batch that is not empty; the handler enters
\* h.DB.Begin().
BatchDecode ==
    /\ txPc = "idle"
    /\ \E b \in Batches : b # <<>> /\ batch' = b
    /\ txPc' = "begin"
    /\ UNCHANGED <<rows, txI, txView, txStatus, batchFrame>>

\* h.DB.Begin() returns an error: 500.
BatchBeginFails ==
    /\ txPc = "begin"
    /\ BatchAnswer(500)
    /\ UNCHANGED <<rows, batch, txI, txView, batchFrame>>

\* h.DB.Begin() opens the transaction.
BatchBegin ==
    /\ txPc = "begin"
    /\ batch' = batch
    /\ txView' = rows
    /\ txI' = 0
    /\ txPc' = "loop"
    /\ UNCHANGED <<rows, txStatus, batchFrame>>

\* A CreatePreference that runs its statement on the connection pool, as it
\* does when the execer it is passed is nil.
BatchCreateOK_NoTx ==
    /\ txPc = "loop"
    /\ txI < Len(batch)
    /\ rows' = Upsert(rows, batch[txI + 1])
    /\ txView' = Upsert(txView, batch[txI + 1])
    /\ txI' = txI + 1
    /\ UNCHANGED <<batch, txPc, txStatus, batchFrame>>

\* h.DB.CreatePreference(&pref, tx) returns err == nil: the upsert is done
\* inside the transaction.
BatchCreateOK ==
    /\ txPc = "loop"
    /\ txI < Len(batch)
    /\ txView' = Upsert(txView, batch[txI + 1])
    /\ txI' = txI + 1
    /\ UNCHANGED <<rows, batch, txPc, txStatus, batchFrame>>

\* h.DB.CreatePreference(&pref, tx) returns an error: 500, and the deferred
\* rollback.
BatchCreateFails ==
    /\ txPc = "loop"
    /\ txI < Len(batch)
    /\ BatchAnswer(500)
    /\ UNCHANGED <<rows, batch, txI, txView, batchFrame>>

\* tx.Commit() returns an error, the transaction was not committed: 500.
BatchCommitFails ==
    /\ txPc = "loop"
    /\ txI = Len(batch)
    /\ BatchAnswer(500)
    /\ UNCHANGED <<rows, batch, txI, txView, batchFrame>>

\* tx.Commit() returns nil: what the transaction did becomes the table.
BatchCommit ==
    /\ txPc = "loop"
    /\ txI = Len(batch)
    /\ rows' = txView
    /\ txPc' = "committed"
    /\ UNCHANGED <<batch, txI, txView, txStatus, batchFrame>>

\* GetAllPreferencesForClient after the commit: the list, or 500.
BatchRespond ==
    /\ txPc = "committed"
    /\ \E code \in {200, 500} : BatchAnswer(code)
    /\ UNCHANGED <<rows, batch, txI, txView, batchFrame>>

\* The next POST /preferences/batch arrives.
BatchNext ==
    /\ txPc = "done"
    /\ txPc' = "idle"
    /\ txStatus' = 0
    /\ txI' = 0
    /\ batch' = <<>>
    /\ txView' = {}
    /\ UNCHANGED <<rows, batchFrame>>

NextBatch ==
    \/ BatchReject
    \/ BatchDecode
    \/ BatchBeginFails
    \/ BatchBegin
    \/ BatchCreateOK
    \/ BatchCreateFails
    \/ BatchCommitFails
    \/ BatchCommit
    \/ BatchRespond
    \/ BatchNext

SpecBatch == Init /\ [][NextBatch]_vars

\* This step ends the handler with the transaction open: an element failed
\* or the commit failed.
BatchFailsInTx == txPc = "loop" /\ txPc' = "done"

\* C25: the table changes only in the step that commits, after every
\* element of the batch went through, and then it is the table of before
\* with every element of the batch upserted; a batch that fails at an
\* element or at the commit is answered 500 and leaves the table as it was,
\* whatever its earlier elements did inside the transaction.
C25_BatchAllOrNothing ==
    [][/\ rows' # rows =>
            /\ txPc = "loop" /\ txPc' = "committed"
            /\ txI = Len(batch)
            /\ rows' = UpsertAll(rows, batch, 1)
       /\ BatchFailsInTx => (rows' = rows /\ txStatus' = 500)
       /\ (txPc = "loop" /\ txPc' = "loop") => rows' = rows
       /\ txPc' = "committed" =>
            \A i \in 1..Len(batch) :
                \E r \in rows' : r.device_id = batch[i].device_id
                                 /\ r.client_id = batch[i].client_id]_vars

\* A batch of two failed after its first element was upserted inside the
\* transaction: 500, and the table still holds what an earlier batch
\* committed, not what the transaction had written.
C25_Witness ==
    /\ txPc = "done"
    /\ txStatus = 500
    /\ Len(batch) = 2
    /\ txI = 1
    /\ rows # {}
    /\ txView # rows

\* ---- the rows of user_preferences ---------------------------------------------
\* The rows of tbl that do not belong to the pair (dev, cli).
OtherPairs(tbl, dev, cli) ==
    {r \in tbl : ~(r.device_id = dev /\ r.client_id = cli)}

\* C26: the table never holds two preferences of one (device_id, client_id);
\* a CreatePreference that succeeds leaves exactly its preference under its
\* pair, adds a row only if the pair had none, and leaves the rows of every
\* other pair as they were.
C26_OnePerPair ==
    /\ [](\A r1, r2 \in rows :
            (r1.device_id = r2.device_id /\ r1.client_id = r2.client_id)
                => r1 = r2)
    /\ [][LET res == dbRes'
              had == GetPreferenceByDeviceAndClientID(rows, res.device_id,
                                                      res.client_id)
          IN  (res.op = "create" /\ res.err = NoErr) =>
                 /\ rows' \ OtherPairs(rows', res.device_id, res.client_id)
                        = {res.arg}
                 /\ OtherPairs(rows', res.device_id, res.client_id)
                        = OtherPairs(rows, res.device_id, res.client_id)
                 /\ Cardinality(rows') =
                        Cardinality(rows) + (IF had = NoPref THEN 1 ELSE 0)]_vars

\* Every pair has a preference and the last call was a CreatePreference
\* whose preference is in the table.
C26_Witness ==
    /\ dbRes.op = "create"
    /\ dbRes.err = NoErr
    /\ dbRes.arg \in rows
    /\ Cardinality(rows) = MaxDevices * MaxClientIds

C28_MissingIsError ==
    [][LET res == dbRes'
           had == GetPreferenceByDeviceAndClientID(rows, res.device_id,
                                                   res.client_id)
       IN  /\ (res.op \in {"update", "delete"} /\ had = NoPref) =>
                 /\ res.err # NoErr
                 /\ res.pref = NoPref
                 /\ rows' = rows
           /\ (had = NoPref /\ res.op = "update" /\ res.err # DbError) =>
                 ~updatePreference(res.device_id, res.client_id, res.arg)]_vars

\* A DeletePreference of a pair without a preference has just reported "no
\* preference found" with other preferences in the table.
C28_Witness ==
    /\ dbRes.op = "delete"
    /\ dbRes.err = NotFound
    /\ GetPreferenceByDeviceAndClientID(rows, dbRes.device_id,
                                        dbRes.client_id) = NoPref
    /\ rows # {}

====
